---- MODULE Spec2Model ----
(***************************************************************************)
(* Weight tracker: the weight-entry write path (WeightEntry.handleSubmit   *)
(* and the notify_weight_entry trigger) and the group progress read path   *)
(* (GroupProgress.fetchGroupProgress, get_group_weight_loss).              *)
(* Also the reminder functions (get_users_needing_reminders and the two   *)
(* edge functions), CreateGroupModal.handleSubmit and the BMI categories.  *)
(*                                                                         *)
(* Time is counted in ticks, TicksPerDay ticks to a day.  Every insert     *)
(* into weight_entries takes a fresh tick, so created_at values are        *)
(* distinct (timestamptz has microsecond resolution).  percentage_change   *)
(* is an exact rational [n, d] in lowest terms with d > 0.  A weight is an  *)
(* integer number of millionths of a pound, a value typed into the form a  *)
(* number of tenths of its unit (the input has step 0.1).  Row level       *)
(* security on reads of weight_entries is not modelled: the aggregation    *)
(* queries see the rows of every member of the group.                      *)
(***************************************************************************)
EXTENDS Integers, Sequences, FiniteSets, TLC

VARIABLES now, weight_entries, groups, group_members, notifications, submit, view,
          reminder_logs, emails, reminders, created, modal, bmi

vars == <<now, weight_entries, groups, group_members, notifications, submit, view,
          reminder_logs, emails, reminders, created, modal, bmi>>

\* the state of the reminder functions and of the CreateGroupModal forms
reminderVars == <<reminder_logs, emails, reminders>>
createVars == <<created, modal>>

\* SQL NULL / JS null in a field whose values are non-negative integers
NULL == -1

\* ---- bounds ----
MaxTime == 3
MaxEntries == 2
TicksPerDay == 2
MaxHistory == 2

Users == {"u1", "u2"}
Groups == {"g1"}
Sessions == {"s1", "s2", "s3"}
Viewers == {"v1", "v2"}

\* the user logged in on each WeightEntry form: s1 and s2 are two sessions of u1
SessionUser == [s \in Sessions |-> IF s = "s3" THEN "u2" ELSE "u1"]

\* ---- numbers ----
Abs(x) == IF x < 0 THEN -x ELSE x

RECURSIVE GCD(_, _)
GCD(a, b) == IF b = 0 THEN a ELSE GCD(b, a % b)

Rat(n, d) ==
  LET g == GCD(Abs(n), Abs(d))
      s == IF d < 0 THEN -1 ELSE 1
  IN  [n |-> (s * n) \div g, d |-> (s * d) \div g]

Zero == Rat(0, 1)

RatLE(a, b) == a.n * b.d <= b.n * a.d
RatLT(a, b) == a.n * b.d < b.n * a.d

RatAdd(a, b) == Rat(a.n * b.d + b.n * a.d, a.d * b.d)

\* a / k for an integer k > 0
RatDivInt(a, k) == Rat(a.n, a.d * k)

\* Math.min(...xs) over a non-empty collection of rationals
MathMin(S) == CHOOSE x \in S : \A y \in S : RatLE(x, y)

\* Math.ceil(a / b) for b > 0
MathCeil(a, b) == -((-a) \div b)

Range(f) == {f[i] : i \in DOMAIN f}

\* every enumeration of a finite set as a sequence (the row order of a query
\* without ORDER BY)
Orderings(S) ==
  {q \in [1..Cardinality(S) -> S] : \A i, j \in 1..Cardinality(S) : q[i] = q[j] => i = j}

\* ---- rows ----
\* one pound, the unit of the weight column, in millionths
Lb == 1000000

\* convertToLbs(weight, unit) for a form value of weight tenths of the unit:
\* weight * 2.20462 for kg, weight for lbs
ConvertToLbs(weight, unit) ==
  IF unit = "kg" THEN weight * 220462 ELSE weight * (Lb \div 10)

\* percentage_change of a notification payload that carries none
NoRat == [n |-> 0, d |-> 0]

\* the result of .limit(1).single() on weight_entries: a row or no data
NoRow == [found |-> FALSE, weight |-> 0]

IdleSubmit == [pc |-> "idle", firstEntry |-> NoRow]

\* weight_entries of one user, ORDER BY created_at ASC (rows are appended in
\* created_at order)
EntriesOf(u) == SelectSeq(weight_entries, LAMBDA e : e.user_id = u)

\* .eq('user_id', user.id).order('created_at', {ascending: true}).limit(1).single()
FirstEntry(u) ==
  IF EntriesOf(u) = << >> THEN NoRow
  ELSE [found |-> TRUE, weight |-> EntriesOf(u)[1].weight]

\* firstEntry?.weight || currentWeightInLbs, then the !firstEntry override
BaselineWeight(firstEntry, current) ==
  LET b == IF firstEntry.found /\ firstEntry.weight # 0 THEN firstEntry.weight ELSE current
  IN  IF ~firstEntry.found THEN current ELSE b

\* ((current - baseline) / baseline) * 100 is a finite number iff baseline # 0
IsFinite(current, baseline) == baseline # 0

\* the ratio to the baseline, the subtraction forgotten
PercentageChange_Ratio(current, baseline) == Rat(current * 100, baseline)

PercentageChange(current, baseline) == Rat((current - baseline) * 100, baseline)

\* ---- triggers ----
NoGroup == "none"

SetToSeq(S) == CHOOSE q \in Orderings(S) : TRUE

MilestoneType(pct) ==
  IF RatLE(pct, Rat(-5, 1)) /\ RatLT(Rat(-10, 1), pct) THEN "5_percent_loss"
  ELSE IF RatLE(pct, Rat(-10, 1)) /\ RatLT(Rat(-15, 1), pct) THEN "10_percent_loss"
  ELSE IF RatLE(pct, Rat(-15, 1)) THEN "15_percent_loss"
  ELSE "none"

\* the rows notify_weight_entry hands to create_notification for the inserted row
NotifyWeightEntry(row) ==
  LET others == {m \in group_members :
                   /\ m.user_id # row.user_id
                   /\ \E gm \in group_members :
                        gm.user_id = row.user_id /\ gm.group_id = m.group_id}
      progress == {[user_id |-> m.user_id, type |-> "weight_entry",
                    group_id |-> m.group_id, sender |-> row.user_id,
                    percentage_change |-> row.percentage_change,
                    entry_id |-> row.id, milestone_type |-> "none"] : m \in others}
      milestone == IF MilestoneType(row.percentage_change) = "none" THEN << >>
                   ELSE <<[user_id |-> row.user_id, type |-> "milestone",
                           group_id |-> NoGroup, sender |-> row.user_id,
                           percentage_change |-> row.percentage_change,
                           entry_id |-> 0,
                           milestone_type |-> MilestoneType(row.percentage_change)]>>
  IN  SetToSeq(progress) \o milestone

\* the rows notify_group_member_change creates for an inserted membership
NotifyMemberJoined(row) ==
  LET others == {m \in group_members : m.group_id = row.group_id /\ m.user_id # row.user_id}
  IN  SetToSeq({[user_id |-> m.user_id, type |-> "member_joined",
                 group_id |-> row.group_id, sender |-> row.user_id,
                 percentage_change |-> NoRat, entry_id |-> 0,
                 milestone_type |-> "none"] : m \in others})

\* ---- WeightEntry.handleSubmit ----
\* up to the awaited read of the user's first entry; when the read fails
\* (ok = FALSE) data is undefined
SubmitRead(s, ok) ==
  /\ submit[s].pc = "idle"
  /\ submit' = [submit EXCEPT ![s] =
                  [pc |-> "read",
                   firstEntry |-> IF ok THEN FirstEntry(SessionUser[s]) ELSE NoRow]]
  /\ UNCHANGED <<now, weight_entries, groups, group_members, notifications, view, reminderVars, createVars, bmi>>

\* an insert that also recomputes the user's earlier rows against the new one
InsertEntry_Recompute(entries, row) ==
  Append([i \in 1..Len(entries) |->
            IF entries[i].user_id = row.user_id /\ row.weight # 0
            THEN [entries[i] EXCEPT
                    !.percentage_change = Rat((entries[i].weight - row.weight) * 100, row.weight)]
            ELSE entries[i]],
         row)

\* the rows of weight_entries after .insert(row)
InsertEntry(entries, row) == Append(entries, row)

\* the insert and everything after it, for the converted weight w of the form
\* and the is_private value of the inserted row (handleSubmit leaves it to
\* the column default FALSE; the Insert row type admits TRUE); neither
\* depends on the read, so they are drawn here.  A percentage_change that is
\* not a finite number is sent as null and rejected by NOT NULL; ok = FALSE is
\* an insert the store rejects
SubmitInsert(s, w, priv, ok) ==
  LET u == SessionUser[s]
      current == w
      baseline == BaselineWeight(submit[s].firstEntry, current)
      row == [id |-> Len(weight_entries) + 1, user_id |-> u, weight |-> current,
              percentage_change |-> PercentageChange(current, baseline),
              is_private |-> priv, created_at |-> now]
  IN  /\ submit[s].pc = "read"
      /\ submit' = [submit EXCEPT ![s] = IdleSubmit]
      /\ Len(weight_entries) < MaxEntries
      /\ now < MaxTime
      /\ IF ok /\ IsFinite(current, baseline)
         THEN /\ weight_entries' = InsertEntry(weight_entries, row)
              /\ notifications' = notifications \o NotifyWeightEntry(row)
              /\ now' = now + 1
         ELSE UNCHANGED <<now, weight_entries, notifications>>
      /\ UNCHANGED <<groups, group_members, view, reminderVars, createVars, bmi>>

\* ---- JoinGroupModal.handleSubmit ----
NoTeam == "none"

JoinGroup(u, g) ==
  LET row == [group_id |-> g, user_id |-> u, team_id |-> NoTeam]
  IN  /\ ~\E m \in group_members : m.group_id = g /\ m.user_id = u
      /\ group_members' = group_members \cup {row}
      /\ notifications' = notifications \o NotifyMemberJoined(row)
      /\ UNCHANGED <<now, weight_entries, groups, submit, view, reminderVars, createVars, bmi>>

\* ---- teams ----
\* the rows of teams, ORDER BY created_at ASC: the admin of g1 has created two
\* teams
Teams == <<[id |-> "t1", group_id |-> "g1"], [id |-> "t2", group_id |-> "g1"]>>

TeamIds == {Teams[i].id : i \in DOMAIN Teams}

\* the creator of each group, the only user whose UPDATE of the row passes the
\* policy "Group creators can update their groups"
CreatedBy == [g \in Groups |-> "u1"]

\* assignMemberToTeam(userId, groupId, teamId) by the admin of the group
AssignMemberToTeam(u, g, t) ==
  /\ \E m \in group_members : m.group_id = g /\ m.user_id = u /\ m.team_id # t
  /\ group_members' = {IF m.group_id = g /\ m.user_id = u
                         THEN [m EXCEPT !.team_id = t] ELSE m : m \in group_members}
  /\ UNCHANGED <<now, weight_entries, groups, notifications, submit, view, reminderVars, createVars, bmi>>

\* getTeamMembers(teamId): the user ids of the memberships with that team_id
GetTeamMembers(t) == {m.user_id : m \in {gm \in group_members : gm.team_id = t}}

\* ---- the clock ----
Tick ==
  /\ now < MaxTime
  /\ now' = now + 1
  /\ UNCHANGED <<weight_entries, groups, group_members, notifications, submit, view, reminderVars, createVars, bmi>>

\* a day passes, up to the given time
DayPasses(limit) ==
  /\ now + TicksPerDay <= limit
  /\ now' = now + TicksPerDay
  /\ UNCHANGED <<weight_entries, groups, group_members, notifications, submit, view,
                 reminderVars, createVars, bmi>>

\* ---- sorting ----
\* progressData left in the order of the members
SortByLatestChange_Unsorted(s) == s

\* progressData.sort((a, b) => a.latest_change - b.latest_change): a stable
\* sort, ascending by latest_change
RECURSIVE SortByLatestChange(_)
SortByLatestChange(s) ==
  IF Len(s) <= 1 THEN s
  ELSE LET rest == SortByLatestChange(SubSeq(s, 1, Len(s) - 1))
           x == s[Len(s)]
           k == Cardinality({i \in 1..Len(rest) :
                               RatLE(rest[i].latest_change, x.latest_change)})
       IN  SubSeq(rest, 1, k) \o <<x>> \o SubSeq(rest, k + 1, Len(rest))

\* teamsData left in the order of the teams
SortByAverageChange_Unsorted(s) == s

\* teamsData.sort((a, b) => a.average_change - b.average_change)
RECURSIVE SortByAverageChange(_)
SortByAverageChange(s) ==
  IF Len(s) <= 1 THEN s
  ELSE LET rest == SortByAverageChange(SubSeq(s, 1, Len(s) - 1))
           x == s[Len(s)]
           k == Cardinality({i \in 1..Len(rest) :
                               RatLE(rest[i].average_change, x.average_change)})
       IN  SubSeq(rest, 1, k) \o <<x>> \o SubSeq(rest, k + 1, Len(rest))

\* ORDER BY weight_loss DESC
RECURSIVE OrderByWeightLossDesc(_)
OrderByWeightLossDesc(s) ==
  IF Len(s) <= 1 THEN s
  ELSE LET rest == OrderByWeightLossDesc(SubSeq(s, 1, Len(s) - 1))
           x == s[Len(s)]
           k == Cardinality({i \in 1..Len(rest) : rest[i].weight_loss >= x.weight_loss})
       IN  SubSeq(rest, 1, k) \o <<x>> \o SubSeq(rest, k + 1, Len(rest))

\* ---- get_group_weight_loss ----
\* the value cut after the second decimal
Round2_Truncated(n, d) ==
  LET a == Abs(n)
      h == (a \div d) * 100 + (((a % d) * 100) \div d)
  IN  IF n >= 0 THEN h ELSE -h

\* ROUND(n / d, 2) for d > 0, in hundredths (half rounds away from zero): the
\* whole part, then the first two decimals, then the rounding of the rest
Round2(n, d) ==
  LET a == Abs(n)
      r == (a % d) * 100
      h == (a \div d) * 100 + (r \div d) + (IF 2 * (r % d) >= d THEN 1 ELSE 0)
  IN  IF n >= 0 THEN h ELSE -h

MemberIds(g) == {m.user_id : m \in {gm \in group_members : gm.group_id = g}}

\* the CTE UserWeightExtremes: one row per member that has an entry
UserWeightExtremes(g) ==
  {[user_id |-> u,
    first_weight |-> EntriesOf(u)[1].weight,
    last_weight |-> EntriesOf(u)[Len(EntriesOf(u))].weight] :
     u \in {m \in MemberIds(g) : EntriesOf(m) # << >>}}

\* the CTE WeightLossDetails; user_id stands for the email and display_name
\* of the joined profile; weight_loss and weight_loss_percentage in hundredths
WeightLossDetails(g) ==
  {[user_id |-> uwe.user_id,
    first_weight |-> uwe.first_weight,
    last_weight |-> uwe.last_weight,
    weight_loss |-> Round2(uwe.first_weight - uwe.last_weight, Lb),
    weight_loss_percentage |->
      IF uwe.first_weight > 0
      THEN Round2((uwe.first_weight - uwe.last_weight) * 100, uwe.first_weight)
      ELSE -Round2((uwe.first_weight - uwe.last_weight) * 100, -uwe.first_weight)] :
     uwe \in {x \in UserWeightExtremes(g) : x.first_weight > x.last_weight}}

\* the loss of one row taken for the sum
SumLoss_First(S) == IF S = {} THEN 0 ELSE (CHOOSE y \in S : TRUE).weight_loss

\* SUM(weight_loss) over the rows of WeightLossDetails
RECURSIVE SumLoss(_)
SumLoss(S) ==
  IF S = {} THEN 0
  ELSE LET x == CHOOSE y \in S : TRUE IN x.weight_loss + SumLoss(S \ {x})

\* the JSON results the function can return: json_agg ... ORDER BY weight_loss
\* DESC over the rows in any scan order, and ROUND(SUM(weight_loss), 2), a sum
\* of hundredths (0 if no row)
GetGroupWeightLoss(g) ==
  {[members |-> OrderByWeightLossDesc(q),
    total_weight_lost |-> SumLoss(WeightLossDetails(g))] :
     q \in Orderings(WeightLossDetails(g))}

EmptyWeightLoss == [members |-> << >>, total_weight_lost |-> 0]

\* isGroupInactive(endDate) at the current time
IsGroupInactive(endDate) == IF endDate = NULL THEN FALSE ELSE endDate < now

\* ---- GroupProgress ----
NoGroupData == [start_date |-> NULL, end_date |-> NULL, total_weight_lost |-> NULL,
                is_team_challenge |-> FALSE]

\* component state after mounting, with the locals of an idle
\* fetchGroupProgress; instance names the mounted component the setters of
\* the fetch write to
InitialView ==
  [pc |-> "idle", user |-> "none", groupData |-> NoGroupData,
   weightLossResult |-> EmptyWeightLoss, members |-> << >>, progressData |-> << >>,
   instance |-> "none",
   groupStartDate |-> NULL, groupEndDate |-> NULL, totalWeightLost |-> NULL,
   weightLossDetails |-> << >>, userTeamId |-> NoTeam, membersProgress |-> << >>,
   teamsProgress |-> << >>, loading |-> TRUE]

\* the catch / finally of fetchGroupProgress, also its normal end
Finish(vw) ==
  [vw EXCEPT !.pc = "done", !.loading = FALSE, !.groupData = NoGroupData,
             !.weightLossResult = EmptyWeightLoss, !.members = << >>,
             !.progressData = << >>]

\* x || null for a number x
OrNull(x) == IF x = 0 THEN NULL ELSE x

\* the step after the settlement block: the read of the user's team in a
\* team challenge, else the read of the members
AfterSettlement(groupData) ==
  IF groupData.is_team_challenge THEN "userteam" ELSE "members"

\* the state the setters of fetch v have written is the state of its
\* component, which every other fetch started by the same component holds
SetState(v, vw) ==
  [w \in DOMAIN vw |->
     IF w # v /\ vw[v].instance # "none" /\ vw[w].instance = vw[v].instance
     THEN [vw[w] EXCEPT !.groupStartDate = vw[v].groupStartDate,
                        !.groupEndDate = vw[v].groupEndDate,
                        !.totalWeightLost = vw[v].totalWeightLost,
                        !.weightLossDetails = vw[v].weightLossDetails,
                        !.userTeamId = vw[v].userTeamId,
                        !.membersProgress = vw[v].membersProgress,
                        !.teamsProgress = vw[v].teamsProgress,
                        !.loading = vw[v].loading]
     ELSE vw[w]]

\* fetchGroupProgress of user u up to the awaited read of the row of group g,
\* in a component whose state is base; the row is readable only by members
\* of the group
FirstRead(base, u, g, ok) ==
  IF ok /\ u \in MemberIds(g)
  THEN [base EXCEPT
          !.pc = IF IsGroupInactive(groups[g].end_date) THEN "settle"
                 ELSE AfterSettlement(groups[g]),
          !.user = u,
          !.groupData = groups[g],
          !.groupStartDate = groups[g].start_date,
          !.groupEndDate = groups[g].end_date,
          !.totalWeightLost = OrNull(groups[g].total_weight_lost)]
  ELSE Finish([base EXCEPT !.user = u])

\* mount for user u and the awaited read of the group row
FetchGroupData(v, u, g, ok) ==
  /\ view[v].pc \in {"idle", "done"}
  /\ view' = [view EXCEPT ![v] = FirstRead([InitialView EXCEPT !.instance = v], u, g, ok)]
  /\ UNCHANGED <<now, weight_entries, groups, group_members, notifications, submit, reminderVars, createVars, bmi>>

\* Dashboard.handleSelectGroup while the component of fetch w stays mounted:
\* its groupId becomes g and the effect starts fetch v, which runs up to the
\* read of the group row; the state of the component is kept, and no fetch
\* in flight is cancelled
SelectGroup(v, w, g, ok) ==
  /\ view[v].pc = "idle"
  /\ view[w].instance # "none"
  /\ view' = SetState(v, [view EXCEPT ![v] =
       FirstRead([view[w] EXCEPT !.pc = "idle", !.groupData = NoGroupData,
                                 !.weightLossResult = EmptyWeightLoss,
                                 !.members = << >>, !.progressData = << >>],
                 view[w].user, g, ok)])
  /\ UNCHANGED <<now, weight_entries, groups, group_members, notifications, submit, reminderVars, createVars, bmi>>

\* calculateGroupWeightLoss: the rpc result, or the empty result on an error
CalculateGroupWeightLoss(v, g, ok) ==
  /\ view[v].pc = "settle"
  /\ \E r \in IF ok THEN GetGroupWeightLoss(g) ELSE {EmptyWeightLoss} :
       view' = SetState(v, [view EXCEPT ![v] =
         [@ EXCEPT !.weightLossDetails = r.members,
                   !.weightLossResult = r,
                   !.pc = IF view[v].groupData.total_weight_lost = NULL
                             /\ r.total_weight_lost > 0
                          THEN "update" ELSE AfterSettlement(view[v].groupData)]])
  /\ UNCHANGED <<now, weight_entries, groups, group_members, notifications, submit, reminderVars, createVars, bmi>>

\* a rejected update that ends the fetch in the outer catch
UpdateTotalWeightLost_Throws(v, g, ok) ==
  /\ view[v].pc = "update"
  /\ IF ok /\ view[v].user = CreatedBy[g]
     THEN /\ groups' = [groups EXCEPT ![g].total_weight_lost =
                          view[v].weightLossResult.total_weight_lost]
          /\ view' = SetState(v, [view EXCEPT ![v] =
               [@ EXCEPT !.totalWeightLost = view[v].weightLossResult.total_weight_lost,
                         !.pc = AfterSettlement(view[v].groupData)]])
     ELSE /\ UNCHANGED groups
          /\ view' = SetState(v, [view EXCEPT ![v] = Finish(@)])
  /\ UNCHANGED <<now, weight_entries, group_members, notifications, submit, reminderVars, createVars, bmi>>

\* the awaited update of groups.total_weight_lost; a rejected update returns
\* an error that is not looked at, and the update of a user other than the
\* creator matches no row
UpdateTotalWeightLost(v, g, ok) ==
  /\ view[v].pc = "update"
  /\ IF ok /\ view[v].user = CreatedBy[g]
     THEN groups' = [groups EXCEPT ![g].total_weight_lost =
                       view[v].weightLossResult.total_weight_lost]
     ELSE UNCHANGED groups
  /\ view' = SetState(v, [view EXCEPT ![v] =
       [@ EXCEPT !.totalWeightLost = view[v].weightLossResult.total_weight_lost,
                 !.pc = AfterSettlement(view[v].groupData)]])
  /\ UNCHANGED <<now, weight_entries, group_members, notifications, submit, reminderVars, createVars, bmi>>

\* the awaited read of the user's own membership in a team challenge;
\* userMembership?.team_id || null
FetchUserTeam(v, g, ok) ==
  /\ view[v].pc = "userteam"
  /\ LET own == {m \in group_members : m.group_id = g /\ m.user_id = view[v].user}
     IN  view' = SetState(v, [view EXCEPT ![v] =
           [@ EXCEPT !.userTeamId = IF ok /\ own # {}
                                    THEN (CHOOSE m \in own : TRUE).team_id ELSE NoTeam,
                     !.pc = "members"]])
  /\ UNCHANGED <<now, weight_entries, groups, group_members, notifications, submit, reminderVars, createVars, bmi>>

\* the awaited read of group_members, rows in any order
FetchMembers(v, g, ok) ==
  /\ view[v].pc = "members"
  /\ \E q \in Orderings({m \in group_members : m.group_id = g}) :
       IF ok /\ q # << >>
       THEN view' = SetState(v, [view EXCEPT ![v] = [@ EXCEPT !.members = q, !.pc = "entries"]])
       ELSE IF ok
       THEN view' = SetState(v, [view EXCEPT ![v] =
              Finish([@ EXCEPT !.membersProgress = << >>, !.teamsProgress = << >>])])
       ELSE view' = SetState(v, [view EXCEPT ![v] = Finish(@)])
  /\ UNCHANGED <<now, weight_entries, groups, group_members, notifications, submit, reminderVars, createVars, bmi>>

\* the query without the is_private filter
IsPublic_AllRows(e) == TRUE

\* .eq('is_private', false)
IsPublic(e) == e.is_private = FALSE

\* the query without the start date filter
FromStartDate_Ignored(e, start_date) == TRUE

\* .gte('created_at', groupData.start_date), applied when start_date is set
FromStartDate(e, start_date) == start_date = NULL \/ e.created_at >= start_date

\* the weight_entries query: the selected columns of the matching rows,
\* ORDER BY created_at ASC
QueryEntries(memberIds, start_date) ==
  LET rows == SelectSeq(weight_entries,
                LAMBDA e : /\ e.user_id \in memberIds
                           /\ IsPublic(e)
                           /\ FromStartDate(e, start_date))
  IN  [i \in 1..Len(rows) |->
         [id |-> rows[i].id, user_id |-> rows[i].user_id,
          percentage_change |-> rows[i].percentage_change,
          created_at |-> rows[i].created_at]]

\* the change of the first entry taken for the latest
LatestChange_First(userEntries) ==
  IF Len(userEntries) > 0 THEN userEntries[1].percentage_change ELSE Zero

LatestChange(userEntries) ==
  IF Len(userEntries) > 0 THEN userEntries[Len(userEntries)].percentage_change ELSE Zero

BestChange(userEntries) ==
  IF Len(userEntries) > 0
  THEN MathMin({userEntries[i].percentage_change : i \in 1..Len(userEntries)})
  ELSE Zero

\* days since the first entry whatever the group start date
DaysActive_FromFirstEntry(start_date, userEntries, t) ==
  IF Len(userEntries) > 0 THEN MathCeil(t - userEntries[1].created_at, TicksPerDay) ELSE 0

\* days since the group start date, else since the first entry, at time t
DaysActive(start_date, userEntries, t) ==
  LET startDateForCalculation ==
        IF start_date = NULL /\ Len(userEntries) > 0 THEN userEntries[1].created_at
        ELSE start_date
  IN  IF startDateForCalculation # NULL
      THEN MathCeil(t - startDateForCalculation, TicksPerDay)
      ELSE 0

\* one element of progressData
MemberProgress(member, entries, start_date, t) ==
  LET userEntries == SelectSeq(entries, LAMBDA e : e.user_id = member.user_id)
  IN  [user_id |-> member.user_id,
       team_id |-> member.team_id,
       entries |-> userEntries,
       latest_change |-> LatestChange(userEntries),
       total_entries |-> Len(userEntries),
       best_change |-> BestChange(userEntries),
       days_active |-> DaysActive(start_date, userEntries, t)]

\* progressData after the sort
ProgressData(members, entries, start_date, t) ==
  SortByLatestChange([i \in 1..Len(members) |->
                        MemberProgress(members[i], entries, start_date, t)])

\* the awaited read of weight_entries and the computation that follows it,
\* up to the read of the teams in a team challenge
FetchEntries(v, ok) ==
  /\ view[v].pc = "entries"
  /\ IF ok
       THEN LET memberIds == {view[v].members[i].user_id : i \in 1..Len(view[v].members)}
                start_date == view[v].groupData.start_date
                entries == QueryEntries(memberIds, start_date)
                progressData == ProgressData(view[v].members, entries, start_date, now)
            IN  IF view[v].groupData.is_team_challenge
                THEN view' = SetState(v, [view EXCEPT ![v] =
                       [@ EXCEPT !.membersProgress = progressData,
                                 !.progressData = progressData, !.pc = "teams"]])
                ELSE view' = SetState(v, [view EXCEPT ![v] =
                       Finish([@ EXCEPT !.membersProgress = progressData])])
       ELSE view' = SetState(v, [view EXCEPT ![v] = Finish(@)])
  /\ UNCHANGED <<now, weight_entries, groups, group_members, notifications, submit, reminderVars, createVars, bmi>>

\* ---- the team aggregation ----
\* teamMembers.reduce((sum, m) => sum + m.latest_change, 0)
RECURSIVE SumLatestChange(_)
SumLatestChange(teamMembers) ==
  IF teamMembers = << >> THEN Zero
  ELSE RatAdd(SumLatestChange(SubSeq(teamMembers, 1, Len(teamMembers) - 1)),
              teamMembers[Len(teamMembers)].latest_change)

\* teamMembers.reduce((sum, m) => sum + m.total_entries, 0)
RECURSIVE SumTotalEntries(_)
SumTotalEntries(teamMembers) ==
  IF teamMembers = << >> THEN 0
  ELSE SumTotalEntries(SubSeq(teamMembers, 1, Len(teamMembers) - 1))
         + teamMembers[Len(teamMembers)].total_entries

\* the sum of the changes taken for their mean
AverageChange_Sum(teamMembers) == SumLatestChange(teamMembers)

\* the sum of latest_change divided by teamMembers.length
AverageChange(teamMembers) == RatDivInt(SumLatestChange(teamMembers), Len(teamMembers))

\* Math.min(...teamMembers.map(m => m.best_change))
TeamBestChange(teamMembers) ==
  MathMin({teamMembers[i].best_change : i \in 1..Len(teamMembers)})

\* a team without members run through the division and Math.min(): NaN and
\* Infinity
ZeroMemberStats_Unguarded(team) ==
  [team_id |-> team.id, member_count |-> 0, average_change |-> NoRat,
   total_entries |-> 0, best_change |-> NoRat, members |-> << >>]

\* the early return for teamMembers.length === 0
ZeroMemberStats(team) ==
  [team_id |-> team.id, member_count |-> 0, average_change |-> Zero,
   total_entries |-> 0, best_change |-> Zero, members |-> << >>]

\* one element of teamsData
TeamProgress(team, progressData) ==
  LET teamMembers == SelectSeq(progressData, LAMBDA m : m.team_id = team.id)
  IN  IF Len(teamMembers) = 0 THEN ZeroMemberStats(team)
      ELSE [team_id |-> team.id,
            member_count |-> Len(teamMembers),
            average_change |-> AverageChange(teamMembers),
            total_entries |-> SumTotalEntries(teamMembers),
            best_change |-> TeamBestChange(teamMembers),
            members |-> teamMembers]

\* teamsData after the sort
TeamsData(teams, progressData) ==
  SortByAverageChange([i \in 1..Len(teams) |-> TeamProgress(teams[i], progressData)])

\* the awaited read of the teams of the group and the team aggregation
FetchTeams(v, g, ok) ==
  /\ view[v].pc = "teams"
  /\ IF ok
       THEN LET teams == SelectSeq(Teams, LAMBDA t : t.group_id = g)
            IN  view' = SetState(v, [view EXCEPT ![v] =
                  Finish([@ EXCEPT !.teamsProgress =
                            TeamsData(teams, view[v].progressData)])])
       ELSE view' = SetState(v, [view EXCEPT ![v] = Finish(@)])
  /\ UNCHANGED <<now, weight_entries, groups, group_members, notifications, submit, reminderVars, createVars, bmi>>

\* calculateTeamStats(team, memberProgress) for a team whose members field
\* lists the given user ids (an absent field selects nobody, as the empty one)
CalculateTeamStats(team, memberProgress) ==
  LET teamMembers == SelectSeq(memberProgress, LAMBDA m : m.user_id \in team.members)
  IN  IF Len(teamMembers) = 0
      THEN [team_id |-> team.id, member_count |-> 0, average_change |-> Zero,
            total_entries |-> 0, best_change |-> Zero, combined_progress |-> Zero]
      ELSE [team_id |-> team.id,
            member_count |-> Len(teamMembers),
            average_change |-> AverageChange(teamMembers),
            total_entries |-> SumTotalEntries(teamMembers),
            best_change |-> TeamBestChange(teamMembers),
            combined_progress |-> SumLatestChange(teamMembers)]

\* canViewMembers of the team list: the viewer is among the members of the
\* team, or the team is the viewer's own
CanViewMembers(v, team) ==
  \/ \E i \in DOMAIN team.members : team.members[i].user_id = view[v].user
  \/ view[v].userTeamId = team.team_id

\* ---- EditGroupModal.handleSubmit ----
EditGroup(g, endDate) ==
  /\ groups[g].end_date # endDate
  /\ groups' = [groups EXCEPT ![g].end_date = endDate]
  /\ UNCHANGED <<now, weight_entries, group_members, notifications, submit, view, reminderVars, createVars, bmi>>

\* ---- reminders ----
\* the intervals of get_users_needing_reminders, in days
InactiveDays == 5
ReminderGapDays == 4

MathMax(S) == CHOOSE x \in S : \A y \in S : y <= x

\* the row of table groups with the given id
GroupRow(id) ==
  IF id \in Groups THEN groups[id]
  ELSE LET i == CHOOSE k \in DOMAIN created : created[k].id = id
       IN  [start_date |-> created[i].start_date, end_date |-> created[i].end_date,
            total_weight_lost |-> NULL, is_team_challenge |-> FALSE]

\* the CTE user_last_entries: one row per membership, MAX(created_at) over
\* the entries of the user (NULL without an entry)
UserLastEntries ==
  {[user_id |-> m.user_id, group_id |-> m.group_id,
    last_entry_date |->
      IF EntriesOf(m.user_id) = << >> THEN NULL
      ELSE MathMax({EntriesOf(m.user_id)[i].created_at : i \in DOMAIN EntriesOf(m.user_id)})] :
     m \in group_members}

\* sent_at of the weight_logging logs of one (user, group)
SentAt(u, g) ==
  {reminder_logs[i].sent_at :
     i \in {k \in DOMAIN reminder_logs : /\ reminder_logs[k].user_id = u
                                         /\ reminder_logs[k].group_id = g
                                         /\ reminder_logs[k].reminder_type = "weight_logging"}}

\* the CTE user_last_reminders, LEFT JOINed: NULL without a log
LastReminderSent(u, g) == IF SentAt(u, g) = {} THEN NULL ELSE MathMax(SentAt(u, g))

\* a timestamp that is NULL or not later than now() - interval 'days days'
OlderThan_Inclusive(t, days) == t = NULL \/ t <= now - days * TicksPerDay

\* t IS NULL OR t < (now() - interval 'days days')
OlderThan(t, days) == t = NULL \/ t < now - days * TicksPerDay

\* get_users_needing_reminders() at the current time
GetUsersNeedingReminders ==
  {[user_id |-> ule.user_id, group_id |-> ule.group_id,
    days_since_last_entry |->
      IF ule.last_entry_date = NULL THEN 999
      ELSE (now - ule.last_entry_date) \div TicksPerDay,
    last_reminder_sent |-> LastReminderSent(ule.user_id, ule.group_id)] :
     ule \in {x \in UserLastEntries :
       /\ OlderThan(x.last_entry_date, InactiveDays)
       /\ OlderThan(LastReminderSent(x.user_id, x.group_id), ReminderGapDays)
       /\ \/ GroupRow(x.group_id).start_date = NULL
          \/ GroupRow(x.group_id).start_date <= now
       /\ \/ GroupRow(x.group_id).end_date = NULL
          \/ GroupRow(x.group_id).end_date >= now}}

\* rows kept in reminder_logs and e-mails delivered in a run of the model
MaxLogs == 2

IdleReminders == [pc |-> "idle", usersNeedingReminders |-> {}]

\* the e-mails Resend delivers for the rows when sendReminderEmail succeeds
Delivered(rows, emailSent) ==
  IF emailSent
  THEN SetToSeq({[user_id |-> r.user_id, group_id |-> r.group_id, at |-> now] : r \in rows})
  ELSE << >>

\* the rows log_reminder_sent inserts for the rows; no query depends on the
\* order of the rows of one run, which carry the same sent_at
Logged(rows, emailSent, logOk) ==
  IF logOk
  THEN SetToSeq({[user_id |-> r.user_id, group_id |-> r.group_id,
                  reminder_type |-> "weight_logging", sent_at |-> now,
                  email_sent |-> emailSent] : r \in rows})
  ELSE << >>

\* send-weight-reminders up to the answer of the rpc: an error ends the run
\* with status 500, an empty answer with 'No users need reminders'
FetchUsersNeedingReminders(ok) ==
  /\ reminders.pc = "idle"
  /\ reminders' = IF ok /\ GetUsersNeedingReminders # {}
                  THEN [pc |-> "send", usersNeedingReminders |-> GetUsersNeedingReminders]
                  ELSE IdleReminders
  /\ UNCHANGED <<now, weight_entries, groups, group_members, notifications, submit, view,
                 reminder_logs, emails, createVars, bmi>>

\* the loop of send-weight-reminders over the rows: the e-mail, then the log
\* of the attempt; a failed log is counted as an error and the loop goes on
SendReminders(emailSent, logOk) ==
  LET rows == reminders.usersNeedingReminders
  IN  /\ reminders.pc = "send"
      /\ Len(emails) + Cardinality(rows) <= MaxLogs
      /\ Len(reminder_logs) + Cardinality(rows) <= MaxLogs
      /\ emails' = emails \o Delivered(rows, emailSent)
      /\ reminder_logs' = reminder_logs \o Logged(rows, emailSent, logOk)
      /\ reminders' = IdleReminders
      /\ UNCHANGED <<now, weight_entries, groups, group_members, notifications, submit, view,
                     createVars, bmi>>

\* send-group-specific-reminders for the name of group g: an e-mail and a
\* log for every member of the group
SendGroupSpecificReminders(g, emailSent, logOk) ==
  LET rows == {m \in group_members : m.group_id = g}
  IN  /\ rows # {}
      /\ Len(emails) + Cardinality(rows) <= MaxLogs
      /\ Len(reminder_logs) + Cardinality(rows) <= MaxLogs
      /\ emails' = emails \o Delivered(rows, emailSent)
      /\ reminder_logs' = reminder_logs \o Logged(rows, emailSent, logOk)
      /\ UNCHANGED <<now, weight_entries, groups, group_members, notifications, submit, view,
                     reminders, createVars, bmi>>

\* ---- CreateGroupModal.handleSubmit ----
\* the CreateGroupModal forms: c1 is open in the session of u1, c2 in that of u2
Creators == {"c1", "c2"}
CreatorUser == [c \in Creators |-> IF c = "c1" THEN "u1" ELSE "u2"]

\* the longest custom invite code the form accepts, also the maxLength of
\* its input
InviteCodeLength == 6

\* groups created in a run of the model, and their ids
MaxGroups == 2
NewGroupIds == <<"n1", "n2", "n3">>

\* String.prototype.toUpperCase on a string, a sequence of characters: "a"
\* and "sz" (the sharp s, one UTF-16 unit) are lower case, the upper case of
\* the sharp s is "SS"; every other character used is upper case or a digit
RECURSIVE ToUpperCase(_)
ToUpperCase(str) ==
  IF str = << >> THEN << >>
  ELSE (CASE Head(str) = "a" -> <<"A">>
          [] Head(str) = "sz" -> <<"S", "S">>
          [] OTHER -> <<Head(str)>>) \o ToUpperCase(Tail(str))

\* the invite code of the groups that exist from the start
InviteCode == [g \in Groups |-> <<"A">>]

\* invite_code of the rows of groups
InviteCodes ==
  {InviteCode[g] : g \in Groups} \cup {created[i].invite_code : i \in DOMAIN created}

\* a column without the UNIQUE constraint
IsDuplicate_Unconstrained(code) == FALSE

\* invite_code text UNIQUE NOT NULL: the insert of a code that is stored fails
IsDuplicate(code) == code \in InviteCodes

\* the state of a freshly mounted modal, with the locals of handleSubmit
\* (inviteCode and the id of the inserted group), empty while it does not run
OpenModal ==
  [pc |-> "form", customInviteCode |-> << >>, inviteCode |-> << >>, error |-> "",
   groupId |-> "none"]

\* onChange of the invite code input for the text typed into it
SetCustomInviteCode(c, typed) ==
  /\ modal[c].pc = "form"
  /\ Len(typed) <= InviteCodeLength
  /\ modal' = [modal EXCEPT ![c].customInviteCode = ToUpperCase(typed)]
  /\ UNCHANGED <<now, weight_entries, groups, group_members, notifications, submit, view,
                 reminderVars, created, bmi>>

\* handleSubmit up to its first await, random being the code that
\* Math.random().toString(36).substring(2, 8).toUpperCase() gives
CreateSubmit(c, random) ==
  LET customInviteCode == modal[c].customInviteCode
      inviteCode == IF ToUpperCase(customInviteCode) # << >>
                    THEN ToUpperCase(customInviteCode) ELSE random
  IN  /\ modal[c].pc = "form"
      /\ modal' = [modal EXCEPT ![c] =
           IF customInviteCode # << >> /\ Len(customInviteCode) > InviteCodeLength
           THEN [@ EXCEPT !.error = "Invite code cannot be longer than 6 characters"]
           ELSE [@ EXCEPT !.error = "", !.inviteCode = inviteCode,
                          !.pc = IF customInviteCode # << >> THEN "check" ELSE "insert"]]
      /\ UNCHANGED <<now, weight_entries, groups, group_members, notifications, submit, view,
                     reminderVars, created, bmi>>

\* the awaited look-up of a group with the custom code; a failed look-up
\* gives no data
CreateCheck(c, ok) ==
  /\ modal[c].pc = "check"
  /\ modal' = [modal EXCEPT ![c] =
       IF ok /\ modal[c].inviteCode \in InviteCodes
       THEN [@ EXCEPT !.error = "This invite code is already taken. Please choose a different one.",
                      !.inviteCode = << >>, !.pc = "form"]
       ELSE [@ EXCEPT !.pc = "insert"]]
  /\ UNCHANGED <<now, weight_entries, groups, group_members, notifications, submit, view,
                 reminderVars, created, bmi>>

\* the awaited insert of the group; its error is thrown into the catch
CreateInsertGroup(c, ok) ==
  LET id == NewGroupIds[Len(created) + 1]
  IN  /\ modal[c].pc = "insert"
      /\ Len(created) < MaxGroups
      /\ IF ok /\ ~IsDuplicate(modal[c].inviteCode)
         THEN /\ created' = Append(created,
                   [id |-> id, invite_code |-> modal[c].inviteCode,
                    created_by |-> CreatorUser[c], start_date |-> NULL, end_date |-> NULL])
              /\ modal' = [modal EXCEPT ![c].pc = "member", ![c].groupId = id]
         ELSE /\ UNCHANGED created
              /\ modal' = [modal EXCEPT ![c].error = "Failed to create group",
                                        ![c].inviteCode = << >>, ![c].pc = "form"]
      /\ UNCHANGED <<now, weight_entries, groups, group_members, notifications, submit, view,
                     reminderVars, bmi>>

\* the awaited insert of the creator's membership, whose result is dropped,
\* and onCreated()
CreateInsertMember(c, ok) ==
  LET row == [group_id |-> modal[c].groupId, user_id |-> CreatorUser[c], team_id |-> NoTeam]
  IN  /\ modal[c].pc = "member"
      /\ IF ok
         THEN /\ group_members' = group_members \cup {row}
              /\ notifications' = notifications \o NotifyMemberJoined(row)
         ELSE UNCHANGED <<group_members, notifications>>
      /\ modal' = [modal EXCEPT ![c].inviteCode = << >>, ![c].pc = "created"]
      /\ UNCHANGED <<now, weight_entries, groups, submit, view, reminderVars, created, bmi>>

\* the modal is opened again after onCreated has closed it
OpenCreateModal(c) ==
  /\ modal[c].pc = "created"
  /\ modal' = [modal EXCEPT ![c] = OpenModal]
  /\ UNCHANGED <<now, weight_entries, groups, group_members, notifications, submit, view,
                 reminderVars, created, bmi>>

\* ---- BMI ----
\* a BMI is a number of tenths; BMIWidget.getBMICategory
GetBMICategory(x) ==
  IF x < 185 THEN "Underweight"
  ELSE IF x < 250 THEN "Normal Weight"
  ELSE IF x < 300 THEN "Overweight"
  ELSE IF x < 350 THEN "Obese"
  ELSE "Severely Obese"

\* WeightEntry.getBMICategory
WeightEntryBMICategory(x) ==
  IF x < 185 THEN "Underweight"
  ELSE IF x < 250 THEN "Normal"
  ELSE IF x < 300 THEN "Overweight"
  ELSE "Obese"

\* the BMI of the user and the category each component shows for it, "none"
\* before the component has rendered
NoBMI == [value |-> 0, widget |-> "none", form |-> "none"]

\* BMIWidget renders the category of the current BMI
RenderBMIWidget ==
  /\ bmi.value > 0
  /\ bmi.widget = "none"
  /\ bmi' = [bmi EXCEPT !.widget = GetBMICategory(bmi.value)]
  /\ UNCHANGED <<now, weight_entries, groups, group_members, notifications, submit, view,
                 reminderVars, createVars>>

\* WeightEntry renders the category of the BMI of the weight typed into it
RenderWeightEntry ==
  /\ bmi.value > 0
  /\ bmi.form = "none"
  /\ bmi' = [bmi EXCEPT !.form = WeightEntryBMICategory(bmi.value)]
  /\ UNCHANGED <<now, weight_entries, groups, group_members, notifications, submit, view,
                 reminderVars, createVars>>

\* ---- specifications ----
\* g1 has been created by u1 (CreateGroupModal.handleSubmit inserts the group
\* with its optional dates and then the creator's membership)
InitStore(startDates, endDates, isTeamChallenge) ==
  /\ now = 0
  /\ weight_entries = << >>
  /\ \E sd \in startDates, ed \in endDates :
       groups = [g \in Groups |->
                  [start_date |-> sd, end_date |-> ed, total_weight_lost |-> NULL,
                   is_team_challenge |-> isTeamChallenge]]
  /\ group_members = {[group_id |-> g, user_id |-> "u1", team_id |-> NoTeam] : g \in Groups}
  /\ notifications = << >>
  /\ submit = [s \in Sessions |-> IdleSubmit]
  /\ view = [v \in Viewers |-> InitialView]
  /\ reminder_logs = << >>
  /\ emails = << >>
  /\ reminders = IdleReminders
  /\ created = << >>
  /\ modal = [c \in Creators |-> OpenModal]

InitGroup(startDates, endDates, isTeamChallenge) ==
  /\ InitStore(startDates, endDates, isTeamChallenge)
  /\ bmi = NoBMI

InitWith(startDates, endDates) == InitGroup(startDates, endDates, FALSE)

\* -- the member progress of a group whose start date may be set: one
\* WeightEntry form per user, the clock, joins and the group view
StartDay == TicksPerDay
Init == InitWith({NULL, StartDay}, {NULL})

Next ==
  \/ \E s \in {"s1", "s3"} : SubmitRead(s, TRUE)
  \/ \E s \in {"s1", "s3"}, x \in {140, 150}, priv \in BOOLEAN :
       SubmitInsert(s, ConvertToLbs(x, "lbs"), priv, TRUE)
  \/ \E u \in Users, g \in Groups : JoinGroup(u, g)
  \/ Tick
  \/ \E g \in Groups : FetchGroupData("v1", "u1", g, TRUE)
  \/ \E g \in Groups, ok \in BOOLEAN : FetchMembers("v1", g, ok)
  \/ \E ok \in BOOLEAN : FetchEntries("v1", ok)

Spec == Init /\ [][Next]_vars

\* -- the write path: two WeightEntry forms of u1, reads and inserts that may
\* fail, weights that include 0
InitSubmit == InitWith({NULL}, {NULL})

NextSubmit ==
  \/ \E s \in {"s1", "s2"}, ok \in BOOLEAN : SubmitRead(s, ok)
  \/ \E s \in {"s1", "s2"}, x \in {0, 140, 150}, priv \in BOOLEAN, ok \in BOOLEAN :
       SubmitInsert(s, ConvertToLbs(x, "lbs"), priv, ok)
  \/ \E u \in Users, g \in Groups : JoinGroup(u, g)

SpecSubmit == InitSubmit /\ [][NextSubmit]_vars

\* -- the settlement of a group whose end date passes
EndDay == 2
InitSettle == InitWith({NULL}, {NULL, EndDay})

NextSettle ==
  \/ \E s \in {"s1", "s3"} : SubmitRead(s, TRUE)
  \/ \E s \in {"s1", "s3"}, x \in {140, 150} :
       SubmitInsert(s, ConvertToLbs(x, "lbs"), FALSE, TRUE)
  \/ \E u \in Users, g \in Groups : JoinGroup(u, g)
  \/ Tick
  \/ \E g \in Groups, ed \in {NULL, EndDay} : EditGroup(g, ed)
  \/ \E u \in Users, g \in Groups, ok \in BOOLEAN : FetchGroupData("v1", u, g, ok)
  \/ \E g \in Groups, ok \in BOOLEAN : CalculateGroupWeightLoss("v1", g, ok)
  \/ \E g \in Groups, ok \in BOOLEAN : UpdateTotalWeightLost("v1", g, ok)
  \/ \E g \in Groups : FetchMembers("v1", g, TRUE)
  \/ FetchEntries("v1", TRUE)

SpecSettle == InitSettle /\ [][NextSettle]_vars

\* -- the team progress of a team challenge: the admin assigns members to
\* the two teams while u1 logs weights and views the group
InitTeams == InitGroup({NULL}, {NULL}, TRUE)

NextTeams ==
  \/ SubmitRead("s1", TRUE)
  \/ \E x \in {140, 150} : SubmitInsert("s1", ConvertToLbs(x, "lbs"), FALSE, TRUE)
  \/ \E u \in Users, g \in Groups : JoinGroup(u, g)
  \/ \E u \in Users, g \in Groups, t \in TeamIds \cup {NoTeam} : AssignMemberToTeam(u, g, t)
  \/ \E g \in Groups : FetchGroupData("v1", "u1", g, TRUE)
  \/ \E g \in Groups, ok \in BOOLEAN : FetchUserTeam("v1", g, ok)
  \/ \E g \in Groups : FetchMembers("v1", g, TRUE)
  \/ FetchEntries("v1", TRUE)
  \/ \E g \in Groups, ok \in BOOLEAN : FetchTeams("v1", g, ok)

SpecTeams == InitTeams /\ [][NextTeams]_vars

\* -- the settlement of a concluded group over the weights its members have
\* logged: a kg entry of 1.0 (2.20462 lb) and lbs entries of 2.2 and 2.1
LossWeights == {ConvertToLbs(10, "kg"), ConvertToLbs(22, "lbs"), ConvertToLbs(21, "lbs")}

\* the sequences of at most MaxHistory weights out of W
Histories(W) == UNION {[1..n -> W] : n \in 0..MaxHistory}

\* the rows stored by the submissions of the weights h by user u, one after
\* the other, after offset earlier rows
History(u, h, offset) ==
  [k \in 1..Len(h) |->
     [id |-> offset + k, user_id |-> u, weight |-> h[k],
      percentage_change |-> PercentageChange(h[k], h[1]),
      is_private |-> FALSE, created_at |-> offset + k - 1]]

\* the notifications the inserts of the rows have created
RECURSIVE NotifyAll(_)
NotifyAll(rows) ==
  IF rows = << >> THEN << >>
  ELSE NotifyAll(SubSeq(rows, 1, Len(rows) - 1)) \o NotifyWeightEntry(rows[Len(rows)])

\* g1 ended at time 0; u1, its creator and only member, and then u2 have
\* logged weights out of W since
InitHistory(W) ==
  /\ \E h1, h2 \in Histories(W) :
       weight_entries = History("u1", h1, 0) \o History("u2", h2, Len(h1))
  /\ now = Len(weight_entries)
  /\ groups = [g \in Groups |->
                 [start_date |-> NULL, end_date |-> 0, total_weight_lost |-> NULL,
                  is_team_challenge |-> FALSE]]
  /\ group_members = {[group_id |-> g, user_id |-> "u1", team_id |-> NoTeam] : g \in Groups}
  /\ notifications = NotifyAll(weight_entries)
  /\ submit = [s \in Sessions |-> IdleSubmit]
  /\ view = [v \in Viewers |-> InitialView]
  /\ reminder_logs = << >>
  /\ emails = << >>
  /\ reminders = IdleReminders
  /\ created = << >>
  /\ modal = [c \in Creators |-> OpenModal]
  /\ bmi = NoBMI

InitLoss == InitHistory(LossWeights)

\* u2 joins and the members open the group view, which runs up to the end of
\* its settlement block
NextLoss ==
  \/ \E u \in Users, g \in Groups : JoinGroup(u, g)
  \/ \E u \in Users, g \in Groups : FetchGroupData("v1", u, g, TRUE)
  \/ \E g \in Groups, ok \in BOOLEAN : CalculateGroupWeightLoss("v1", g, ok)
  \/ \E g \in Groups, ok \in BOOLEAN : UpdateTotalWeightLost("v1", g, ok)

SpecLoss == InitLoss /\ [][NextLoss]_vars

\* -- the cached total of a concluded group: two views, v1 of any user and
\* v2 of the creator on a second device, whose settlement reads and writes
\* may fail
CacheWeights == {ConvertToLbs(140, "lbs"), ConvertToLbs(150, "lbs")}

InitCache == InitHistory(CacheWeights)

NextCache ==
  \/ \E u \in Users, g \in Groups : JoinGroup(u, g)
  \/ \E u \in Users, g \in Groups : FetchGroupData("v1", u, g, TRUE)
  \/ \E g \in Groups : FetchGroupData("v2", "u1", g, TRUE)
  \/ \E v \in Viewers, g \in Groups, ok \in BOOLEAN : CalculateGroupWeightLoss(v, g, ok)
  \/ \E v \in Viewers, g \in Groups, ok \in BOOLEAN : UpdateTotalWeightLost(v, g, ok)
  \/ \E v \in Viewers, g \in Groups : FetchMembers(v, g, TRUE)
  \/ \E v \in Viewers : FetchEntries(v, TRUE)

SpecCache == InitCache /\ [][NextCache]_vars

\* -- the views of a concluded group when no request to the store fails
NextView ==
  \/ \E u \in Users, g \in Groups : JoinGroup(u, g)
  \/ \E u \in Users, g \in Groups : FetchGroupData("v1", u, g, TRUE)
  \/ \E g \in Groups : CalculateGroupWeightLoss("v1", g, TRUE)
  \/ \E g \in Groups : UpdateTotalWeightLost("v1", g, TRUE)
  \/ \E g \in Groups : FetchMembers("v1", g, TRUE)
  \/ FetchEntries("v1", TRUE)

SpecView == InitCache /\ [][NextView]_vars

\* -- the settlement of a group whose members log private entries: the form
\* of u1, the clock and the view of u1 up to the end of its settlement block
InitQualify == InitWith({NULL}, {EndDay})

NextQualify ==
  \/ SubmitRead("s1", TRUE)
  \/ \E x \in {140, 150}, priv \in BOOLEAN :
       SubmitInsert("s1", ConvertToLbs(x, "lbs"), priv, TRUE)
  \/ Tick
  \/ \E g \in Groups : FetchGroupData("v1", "u1", g, TRUE)
  \/ \E g \in Groups : CalculateGroupWeightLoss("v1", g, TRUE)
  \/ \E g \in Groups : UpdateTotalWeightLost("v1", g, TRUE)

SpecQualify == InitQualify /\ [][NextQualify]_vars

\* -- the reminder functions over a week: u1 logs weights on the first days
\* of g1, which may start after a day and end after six, u2 joins, and the
\* two functions run on any day; every reminder is logged
ReminderHorizon == 7 * TicksPerDay
ReminderEnd == 6 * TicksPerDay
InitReminders == InitGroup({NULL, StartDay}, {NULL, ReminderEnd}, FALSE)

NextReminders ==
  \/ SubmitRead("s1", TRUE)
  \/ SubmitInsert("s1", ConvertToLbs(140, "lbs"), FALSE, TRUE)
  \/ \E g \in Groups : JoinGroup("u2", g)
  \/ DayPasses(ReminderHorizon)
  \/ \E ok \in BOOLEAN : FetchUsersNeedingReminders(ok)
  \/ \E emailSent \in BOOLEAN : SendReminders(emailSent, TRUE)
  \/ \E g \in Groups : SendGroupSpecificReminders(g, TRUE, TRUE)

SpecReminders == InitReminders /\ [][NextReminders]_vars

\* -- the creation of groups by u1 and u2, each in a CreateGroupModal, with
\* custom or generated invite codes and requests that may fail; u2 types
\* the sharp s or nothing
Repeat(ch, n) == [i \in 1..n |-> ch]

\* the texts typed into the invite code input: at most InviteCodeLength
\* characters, of which the sharp s grows when put in upper case
TypedCodes ==
  {<< >>, <<"a">>, <<"sz">>, Repeat("a", InviteCodeLength),
   Repeat("a", InviteCodeLength - 1) \o <<"sz">>,
   Repeat("sz", InviteCodeLength \div 2), Repeat("sz", InviteCodeLength \div 2 + 1)}

\* generated codes: up to six digits in base 36, in upper case
AutoCodes == {<<"A">>, <<"S", "S">>, <<"K", "7", "Q", "2", "M", "9">>}

InitCreate == InitGroup({NULL}, {NULL}, FALSE)

NextCreate ==
  \/ \E typed \in TypedCodes : SetCustomInviteCode("c1", typed)
  \/ \E typed \in {<< >>, <<"sz">>} : SetCustomInviteCode("c2", typed)
  \/ \E c \in Creators, random \in AutoCodes : CreateSubmit(c, random)
  \/ \E c \in Creators, ok \in BOOLEAN : CreateCheck(c, ok)
  \/ \E c \in Creators, ok \in BOOLEAN : CreateInsertGroup(c, ok)
  \/ \E c \in Creators, ok \in BOOLEAN : CreateInsertMember(c, ok)
  \/ \E c \in Creators : OpenCreateModal(c)

SpecCreate == InitCreate /\ [][NextCreate]_vars

\* -- the BMI categories shown for the BMI values of the scale of the
\* widget, 15.0 to 40.0
MinBMI == 150
MaxBMI == 400

InitBMI ==
  /\ InitStore({NULL}, {NULL}, FALSE)
  /\ \E x \in MinBMI..MaxBMI : bmi = [NoBMI EXCEPT !.value = x]

NextBMI ==
  \/ RenderBMIWidget
  \/ RenderWeightEntry

SpecBMI == InitBMI /\ [][NextBMI]_vars

\* -- the change of the selected group in a mounted GroupProgress: u1, a
\* member of g1 (with u2) and of g2 (alone), has opened g1 and selects g2;
\* v1 is the fetch started for g1, v2 the one started for g2
SwitchGroups == {"g1", "g2"}

\* the groupId each fetch has captured
FetchedGroup == [v \in Viewers |-> IF v = "v1" THEN "g1" ELSE "g2"]

InitSwitch ==
  /\ \E h1, h2 \in Histories(CacheWeights) :
       weight_entries = History("u1", h1, 0) \o History("u2", h2, Len(h1))
  /\ now = Len(weight_entries)
  /\ groups = [g \in SwitchGroups |->
                 [start_date |-> NULL, end_date |-> NULL, total_weight_lost |-> NULL,
                  is_team_challenge |-> FALSE]]
  /\ group_members = {[group_id |-> "g1", user_id |-> "u1", team_id |-> NoTeam],
                      [group_id |-> "g1", user_id |-> "u2", team_id |-> NoTeam],
                      [group_id |-> "g2", user_id |-> "u1", team_id |-> NoTeam]}
  /\ notifications = NotifyAll(weight_entries)
  /\ submit = [s \in Sessions |-> IdleSubmit]
  /\ view = [v \in Viewers |->
               IF v = "v1"
               THEN FirstRead([InitialView EXCEPT !.instance = v], "u1", FetchedGroup[v], TRUE)
               ELSE InitialView]
  /\ reminder_logs = << >>
  /\ emails = << >>
  /\ reminders = IdleReminders
  /\ created = << >>
  /\ modal = [c \in Creators |-> OpenModal]
  /\ bmi = NoBMI

NextSwitch ==
  \/ SelectGroup("v2", "v1", FetchedGroup["v2"], TRUE)
  \/ \E v \in Viewers : FetchMembers(v, FetchedGroup[v], TRUE)
  \/ \E v \in Viewers : FetchEntries(v, TRUE)

SpecSwitch == InitSwitch /\ [][NextSwitch]_vars

\* ---- properties ----
\* the stored entries of user u that qualify for a group with the given start
\* date: not private and not created before the start date
Qualifying(u, start_date) ==
  {e \in Range(weight_entries) :
     /\ e.user_id = u
     /\ ~e.is_private
     /\ (start_date # NULL => e.created_at >= start_date)}

Changes(S) == {e.percentage_change : e \in S}

Summaries(v) == Range(view[v].membersProgress)

\* a step in which fetchGroupProgress of viewer v delivers member progress
Delivers(v) ==
  /\ view[v].pc = "entries"
  /\ view'[v].pc = "done"
  /\ view'[v].membersProgress # << >>

\* C1: member progress is computed only from entries with is_private = false:
\* every listed entry is a stored non-private entry of that member, there are
\* no more of them than the member has non-private entries, and latest_change
\* and best_change are the change of a non-private entry, or 0 when none is
\* listed
C1_NoPrivateEntryInProgress ==
  \A v \in Viewers : \A mp \in Summaries(v) :
    LET public == {e \in Range(weight_entries) : e.user_id = mp.user_id /\ ~e.is_private}
    IN  /\ \A i \in DOMAIN mp.entries :
             /\ mp.entries[i].id \in DOMAIN weight_entries
             /\ weight_entries[mp.entries[i].id] \in public
        /\ mp.total_entries <= Cardinality(public)
        /\ mp.latest_change \in Changes(public) \cup {Zero}
        /\ mp.best_change \in Changes(public) \cup {Zero}
        /\ public = {} => mp.latest_change = Zero /\ mp.best_change = Zero

\* a delivered summary lists an entry of a member who had logged a private
\* entry before it
C1_Witness ==
  \E v \in Viewers : \E mp \in Summaries(v) :
    /\ mp.total_entries >= 1
    /\ \E e \in Range(weight_entries) :
         /\ e.user_id = mp.user_id
         /\ e.is_private
         /\ e.id < mp.entries[Len(mp.entries)].id

\* C7: with start_date set, member progress uses no entry created before it,
\* and a member whose entries all precede it has total_entries = 0
C7_NoEntryBeforeStartDate ==
  \A v \in Viewers : \A mp \in Summaries(v) :
    view[v].groupStartDate # NULL =>
      LET sd == view[v].groupStartDate
          since == {e \in Range(weight_entries) : e.user_id = mp.user_id /\ e.created_at >= sd}
      IN  /\ \A i \in DOMAIN mp.entries : mp.entries[i].created_at >= sd
          /\ mp.total_entries <= Cardinality(since)
          /\ mp.latest_change \in Changes(since) \cup {Zero}
          /\ mp.best_change \in Changes(since) \cup {Zero}
          /\ since = {} =>
               mp.total_entries = 0 /\ mp.latest_change = Zero /\ mp.best_change = Zero

\* a delivered summary of a group with a start date lists one entry of a
\* member who also has an earlier public entry from before the start date
C7_Witness ==
  \E v \in Viewers : \E mp \in Summaries(v) :
    /\ view[v].groupStartDate # NULL
    /\ mp.total_entries = 1
    /\ \E e \in Range(weight_entries) :
         /\ e.user_id = mp.user_id
         /\ ~e.is_private
         /\ e.created_at < view[v].groupStartDate

\* C8: in the delivered progress there is one summary per fetched member, with
\* latest_change the change of the qualifying entry created last, best_change
\* the least change of a qualifying entry, total_entries their number, and
\* all three 0 when the member has no qualifying entry
C8_MemberSummary ==
  [][\A v \in Viewers : Delivers(v) =>
       /\ {mp.user_id : mp \in Summaries(v)'} = {m.user_id : m \in Range(view[v].members)}
       /\ Len(view'[v].membersProgress) = Len(view[v].members)
       /\ \A mp \in Summaries(v)' :
            LET q == Qualifying(mp.user_id, view[v].groupData.start_date)
            IN  /\ mp.total_entries = Cardinality(q)
                /\ q = {} => mp.latest_change = Zero /\ mp.best_change = Zero
                /\ q # {} =>
                     /\ \E e \in q : /\ \A f \in q : f.created_at <= e.created_at
                                      /\ mp.latest_change = e.percentage_change
                     /\ \E e \in q : /\ \A f \in q : RatLE(e.percentage_change, f.percentage_change)
                                      /\ mp.best_change = e.percentage_change]_vars

\* a delivered summary over two entries whose latest change is not the best
C8_Witness ==
  \E v \in Viewers : \E mp \in Summaries(v) :
    /\ mp.total_entries = 2
    /\ mp.latest_change # mp.best_change

\* C9: days_active is the ceiling of the days from the group's start date to
\* now when the start date is set, else from the member's first qualifying
\* entry, and 0 when there is neither
C9_DaysActive ==
  [][\A v \in Viewers : Delivers(v) =>
       \A mp \in Summaries(v)' :
         LET sd == view[v].groupData.start_date
             q == Qualifying(mp.user_id, sd)
             IsCeil(d, ticks) == /\ d * TicksPerDay >= ticks
                                 /\ (d - 1) * TicksPerDay < ticks
         IN  /\ sd # NULL => IsCeil(mp.days_active, now - sd)
             /\ sd = NULL /\ q # {} =>
                  \E e \in q : /\ \A f \in q : e.created_at <= f.created_at
                               /\ IsCeil(mp.days_active, now - e.created_at)
             /\ sd = NULL /\ q = {} => mp.days_active = 0]_vars

\* a delivered summary of a group with a start date, for a member with an
\* entry from before the start date, counts a started day
C9_Witness ==
  \E v \in Viewers : \E mp \in Summaries(v) :
    /\ view[v].groupStartDate # NULL
    /\ mp.days_active = 1
    /\ \E e \in Range(weight_entries) :
         e.user_id = mp.user_id /\ e.created_at < view[v].groupStartDate

\* C10: the member progress list is sorted ascending by latest_change
C10_SortedByLatestChange ==
  \A v \in Viewers :
    \A i \in 1..(Len(view[v].membersProgress) - 1) :
      RatLE(view[v].membersProgress[i].latest_change,
            view[v].membersProgress[i + 1].latest_change)

\* a delivered list of two members with different latest changes
C10_Witness ==
  \E v \in Viewers :
    /\ Len(view[v].membersProgress) = 2
    /\ view[v].membersProgress[1].latest_change # view[v].membersProgress[2].latest_change

\* C2: a private weight entry is not visible to groups: no weight_entry
\* notification is created for an entry with is_private = true
C2_NoNotificationForPrivateEntry ==
  \A i \in DOMAIN notifications :
    notifications[i].type = "weight_entry" =>
      ~weight_entries[notifications[i].entry_id].is_private

\* C3: no settlement row held by a viewer is about another member and carries
\* a weight that member recorded
C3_NoRawWeightOfOthers ==
  \A v \in Viewers : \A d \in Range(view[v].weightLossDetails) :
    d.user_id # view[v].user =>
      ~\E e \in Range(weight_entries) :
         e.user_id = d.user_id /\ e.weight \in {d.first_weight, d.last_weight}

\* C4: every stored entry's percentage_change is (weight - baseline) /
\* baseline * 100 for the weight of its user's earliest entry as baseline
C4_ChangeRelativeToFirstEntry ==
  \A i \in DOMAIN weight_entries :
    LET e == weight_entries[i]
        baseline == EntriesOf(e.user_id)[1].weight
    IN  /\ baseline # 0
        /\ e.percentage_change.n * baseline = (e.weight - baseline) * 100 * e.percentage_change.d

\* C5: the first entry recorded for a user has percentage_change exactly 0
C5_FirstEntryChangeIsZero ==
  \A u \in Users :
    EntriesOf(u) # << >> =>
      /\ EntriesOf(u)[1].percentage_change.n = 0
      /\ EntriesOf(u)[1].percentage_change.d = 1

\* a user has a first entry, and it records a weight of 15.0 lb
C5_Witness ==
  \E u \in Users : EntriesOf(u) # << >> /\ EntriesOf(u)[1].weight = 15 * Lb

\* C6: a step adds at most one row to weight_entries and leaves every row
\* stored before it as it was
C6_AppendOnly ==
  [][/\ Len(weight_entries') <= Len(weight_entries) + 1
     /\ \A i \in DOMAIN weight_entries :
          /\ i \in DOMAIN weight_entries'
          /\ weight_entries'[i] = weight_entries[i]]_vars

\* a second entry of a user has been stored after the first, with another weight
C6_Witness ==
  \E u \in Users :
    Len(EntriesOf(u)) >= 2 /\ EntriesOf(u)[1].weight # EntriesOf(u)[2].weight

\* the member summaries of viewer v that carry the team id t
TeamRows(v, t) == {mp \in Summaries(v) : mp.team_id = t}

RECURSIVE TotalLatestChange(_)
TotalLatestChange(S) ==
  IF S = {} THEN Zero
  ELSE LET x == CHOOSE y \in S : TRUE
       IN  RatAdd(x.latest_change, TotalLatestChange(S \ {x}))

RECURSIVE TotalEntries(_)
TotalEntries(S) ==
  IF S = {} THEN 0
  ELSE LET x == CHOOSE y \in S : TRUE IN x.total_entries + TotalEntries(S \ {x})

\* C11: the members of every delivered team are exactly the delivered member
\* summaries whose team_id is that team, and for a team with at least one
\* member average_change times the number of members is the sum of their
\* latest_change, total_entries is the sum of their total_entries and
\* best_change is the least of their best_change; calculateTeamStats yields
\* the same three values for the team given with these members
C11_TeamAggregates ==
  \A v \in Viewers : \A tp \in Range(view[v].teamsProgress) :
    LET rows == TeamRows(v, tp.team_id)
        stats == CalculateTeamStats([id |-> tp.team_id,
                                     members |-> {mp.user_id : mp \in rows}],
                                    view[v].membersProgress)
    IN  /\ Range(tp.members) = rows
        /\ tp.member_count = Cardinality(rows)
        /\ rows # {} =>
             /\ tp.average_change.n * TotalLatestChange(rows).d * Cardinality(rows)
                  = TotalLatestChange(rows).n * tp.average_change.d
             /\ tp.average_change.d > 0
             /\ tp.total_entries = TotalEntries(rows)
             /\ \E mp \in rows : /\ tp.best_change = mp.best_change
                                  /\ \A o \in rows : RatLE(mp.best_change, o.best_change)
             /\ stats.average_change = tp.average_change
             /\ stats.total_entries = tp.total_entries
             /\ stats.best_change = tp.best_change

\* a delivered team of two members, one of them with two entries and a loss
\* and the other without an entry, so that the mean is neither one's change
C11_Witness ==
  \E v \in Viewers : \E tp \in Range(view[v].teamsProgress) :
    /\ tp.member_count = 2
    /\ tp.total_entries = 2
    /\ RatLT(tp.average_change, Zero)
    /\ \A mp \in TeamRows(v, tp.team_id) : mp.latest_change # tp.average_change

\* C12: a team none of the delivered members belongs to is delivered with
\* member_count, average_change, total_entries and best_change all the number
\* 0, and calculateTeamStats yields these four zeros for every team none of
\* whose members is among the delivered members
C12_ZeroMemberTeam ==
  \A v \in Viewers :
    /\ \A tp \in Range(view[v].teamsProgress) :
         TeamRows(v, tp.team_id) = {} =>
           /\ tp.member_count = 0
           /\ tp.average_change = Zero
           /\ tp.total_entries = 0
           /\ tp.best_change = Zero
    /\ \A t \in TeamIds :
         LET stats == CalculateTeamStats([id |-> t, members |-> GetTeamMembers(t)],
                                         view[v].membersProgress)
         IN  (\A mp \in Summaries(v) : mp.user_id \notin GetTeamMembers(t)) =>
               /\ stats.member_count = 0
               /\ stats.average_change = Zero
               /\ stats.total_entries = 0
               /\ stats.best_change = Zero

\* the delivered team list holds a team without members next to a team with a
\* member that has logged an entry
C12_Witness ==
  \E v \in Viewers : \E tp, tq \in Range(view[v].teamsProgress) :
    /\ tp.member_count = 0
    /\ tq.member_count >= 1
    /\ tq.total_entries >= 1

\* C13: the team progress list is sorted ascending by average_change
C13_TeamsSortedByAverageChange ==
  \A v \in Viewers :
    \A i \in 1..(Len(view[v].teamsProgress) - 1) :
      RatLE(view[v].teamsProgress[i].average_change,
            view[v].teamsProgress[i + 1].average_change)

\* the team created second is delivered first, with the lower average change
C13_Witness ==
  \E v \in Viewers :
    /\ Len(view[v].teamsProgress) = 2
    /\ view[v].teamsProgress[1].team_id = "t2"
    /\ RatLT(view[v].teamsProgress[1].average_change,
             view[v].teamsProgress[2].average_change)

\* C14: a team delivered to a viewer who is not among its members and whose
\* own team it is not carries no member summaries
C14_NoMemberBreakdownForOutsiders ==
  \A v \in Viewers : \A tp \in Range(view[v].teamsProgress) :
    ~CanViewMembers(v, tp) => tp.members = << >>

\* the settlement rows held by viewer v
Details(v) == Range(view[v].weightLossDetails)

\* C15: every member listed in a settlement has recorded a first weight above
\* the last one, and is listed with weight_loss > 0
C15_OnlyLossListed ==
  \A v \in Viewers : \A d \in Details(v) :
    LET e == EntriesOf(d.user_id)
    IN  /\ e # << >>
        /\ e[1].weight > e[Len(e)].weight
        /\ d.weight_loss > 0

RECURSIVE ListedLoss(_)
ListedLoss(members) ==
  IF members = << >> THEN 0
  ELSE ListedLoss(SubSeq(members, 1, Len(members) - 1)) + members[Len(members)].weight_loss

\* C16: the total_weight_lost of a settlement result is the sum of the
\* weight_loss of the members it lists, a whole number of hundredths, and 0
\* when it lists none
C16_TotalIsSumOfListed ==
  \A v \in Viewers :
    LET r == view[v].weightLossResult
    IN  /\ r.total_weight_lost = ListedLoss(r.members)
        /\ r.members = << >> => r.total_weight_lost = 0

\* a settlement result that lists two members with a loss each
C16_Witness ==
  \E v \in Viewers :
    /\ Len(view[v].weightLossResult.members) = 2
    /\ \A i \in 1..2 : view[v].weightLossResult.members[i].weight_loss > 0

\* h hundredths is n / d rounded to two decimals, for n >= 0 and d > 0
IsRounded(h, n, d) ==
  LET r == 100 * n - h * d IN -d <= 2 * r /\ 2 * r < d

\* C17: every listed member carries the weights of the member's first and
\* last entry, their difference rounded to two decimals as weight_loss and
\* the difference as a percentage of the first weight, rounded to two
\* decimals, as weight_loss_percentage
C17_LossAndPercentage ==
  \A v \in Viewers : \A d \in Details(v) :
    LET e == EntriesOf(d.user_id)
        first == e[1].weight
        last == e[Len(e)].weight
    IN  /\ d.first_weight = first
        /\ d.last_weight = last
        /\ IsRounded(d.weight_loss, first - last, Lb)
        /\ IsRounded(d.weight_loss_percentage, (first - last) * 100, first)

\* A went from 2.2 lb to 2.1 lb and B from 2.1 lb to 2.2 lb: only A is
\* listed, with weight_loss 0.10 and 4.55 percent (4.5454... rounded)
C17_Witness ==
  \E v \in Viewers :
    /\ Len(view[v].weightLossDetails) = 1
    /\ view[v].weightLossDetails[1].weight_loss = 10
    /\ view[v].weightLossDetails[1].weight_loss_percentage = 455
    /\ view[v].weightLossResult.total_weight_lost = 10
    /\ \E u \in MemberIds("g1") :
         /\ Len(EntriesOf(u)) = 2
         /\ EntriesOf(u)[1].weight < EntriesOf(u)[2].weight

\* C18: once the total_weight_lost of a group is stored, no step changes it
C18_TotalStoredOnce ==
  [][\A g \in Groups :
       groups[g].total_weight_lost # NULL =>
         groups'[g].total_weight_lost = groups[g].total_weight_lost]_vars

\* a step in which the fetch of viewer v, having read group g as concluded,
\* comes to its end after the read of the entries
CompletesConcluded(v, g) ==
  /\ view[v].pc = "entries"
  /\ view'[v].pc = "done"
  /\ view[v].groupData.end_date # NULL
  /\ view[v].groupData.end_date < now

\* C19: when a view of a concluded group completes, the total_weight_lost of
\* the group is stored
C19_TotalStoredAfterView ==
  [][\A v \in Viewers, g \in Groups :
       CompletesConcluded(v, g) => groups'[g].total_weight_lost # NULL]_vars

\* a step in which the update of viewer v returns and the total_weight_lost
\* of group g is still not stored
WriteFails(v, g) ==
  /\ view[v].pc = "update"
  /\ view'[v].pc # "update"
  /\ groups'[g].total_weight_lost = NULL

\* viewer v holds a computed total and group g has none stored
Unpersisted(v, g) ==
  view[v].totalWeightLost # NULL /\ groups[g].total_weight_lost = NULL

\* C20: a view whose write of total_weight_lost fails goes on to the read of
\* the members with the computed settlement rows and total delivered, and
\* when it completes it delivers the member progress next to them
C20_WriteFailureDoesNotFailView ==
  [][\A v \in Viewers, g \in Groups :
       /\ WriteFails(v, g) =>
            /\ view'[v].pc = "members"
            /\ view'[v].weightLossDetails = view[v].weightLossResult.members
            /\ view'[v].weightLossDetails # << >>
            /\ view'[v].totalWeightLost = view[v].weightLossResult.total_weight_lost
       /\ CompletesConcluded(v, g) /\ Unpersisted(v, g)' =>
            /\ view'[v].weightLossDetails # << >>
            /\ view'[v].totalWeightLost = ListedLoss(view'[v].weightLossDetails)
            /\ view'[v].membersProgress # << >>
            /\ view'[v].loading = FALSE]_vars

\* a view has completed with member progress and the settlement rows while
\* the total it computed is not stored
C20_Witness ==
  \E v \in Viewers, g \in Groups :
    /\ view[v].pc = "done"
    /\ Unpersisted(v, g)
    /\ view[v].user = CreatedBy[g]
    /\ view[v].membersProgress # << >>
    /\ view[v].weightLossDetails # << >>

\* C21: a failed aggregation fetch is reported to the caller: the settlement
\* read of a view hands over the empty result only when the answer of
\* get_group_weight_loss is the empty result
C21_FailedFetchReported ==
  [][\A v \in Viewers, g \in Groups :
       (/\ view[v].pc = "settle"
        /\ view'[v].pc # "settle"
        /\ view'[v].weightLossResult = EmptyWeightLoss)
         => EmptyWeightLoss \in GetGroupWeightLoss(g)]_vars

\* C30: days_active is a non-negative integer for every member of every
\* member progress a view holds
C30_DaysActiveNonNegative ==
  \A v \in Viewers :
    \A i \in 1..Len(view[v].membersProgress) :
      /\ view[v].membersProgress[i].days_active \in Int
      /\ view[v].membersProgress[i].days_active >= 0

\* the stored entries of user u that qualify for the settlement of group g:
\* not private and created within the window of the group
QualifyingIn(u, g) ==
  SelectSeq(weight_entries,
            LAMBDA e : /\ e.user_id = u
                       /\ ~e.is_private
                       /\ groups[g].start_date = NULL \/ e.created_at >= groups[g].start_date
                       /\ groups[g].end_date = NULL \/ e.created_at <= groups[g].end_date)

\* C27: the settlement result depends only on qualifying entries: it is the
\* result for the store without its private and out-of-window entries, so a
\* listed member has qualifying entries, and the first and the last of them
\* carry the listed weights
C27_SettlementOfQualifyingEntries ==
  [][\A v \in Viewers, g \in Groups :
       (view[v].pc = "settle" /\ view'[v].pc # "settle")
         => \A i \in 1..Len(view'[v].weightLossDetails) :
              LET d == view'[v].weightLossDetails[i]
                  q == QualifyingIn(d.user_id, g)
              IN  /\ q # << >>
                  /\ d.first_weight = q[1].weight
                  /\ d.last_weight = q[Len(q)].weight]_vars

C22_ReminderEligibility ==
  {[user_id |-> r.user_id, group_id |-> r.group_id] : r \in GetUsersNeedingReminders} =
  {p \in [user_id : Users, group_id : Groups] :
     /\ \E m \in group_members : m.user_id = p.user_id /\ m.group_id = p.group_id
     /\ groups[p.group_id].start_date = NULL \/ groups[p.group_id].start_date <= now
     /\ groups[p.group_id].end_date = NULL \/ groups[p.group_id].end_date >= now
     /\ \A i \in DOMAIN weight_entries :
          weight_entries[i].user_id = p.user_id
            => now - weight_entries[i].created_at > InactiveDays * TicksPerDay
     /\ \A i \in DOMAIN reminder_logs :
          (reminder_logs[i].user_id = p.user_id /\ reminder_logs[i].group_id = p.group_id)
            => now - reminder_logs[i].sent_at > ReminderGapDays * TicksPerDay}

\* a run of send-weight-reminders holds a member whose last entry is older
\* than 5 days and whose last reminder is older than 4 days, while another
\* member of the group is left out
C22_Witness ==
  /\ reminders.pc = "send"
  /\ \E r \in reminders.usersNeedingReminders :
       /\ r.days_since_last_entry # 999
       /\ r.last_reminder_sent # NULL
  /\ \E m \in group_members :
       \A r \in reminders.usersNeedingReminders : r.user_id # m.user_id

\* C23: any two reminder e-mails delivered to the same user are at least 4
\* days apart
C23_MinimumGapBetweenEmails ==
  \A i \in DOMAIN emails : \A j \in DOMAIN emails :
    (i < j /\ emails[i].user_id = emails[j].user_id)
      => emails[j].at - emails[i].at >= ReminderGapDays * TicksPerDay

\* C25: every stored group has an invite code of at most 6 characters, and
\* no two stored groups have the same invite code
C25_InviteCodes ==
  /\ \A i \in DOMAIN created : Len(created[i].invite_code) <= InviteCodeLength
  /\ \A i \in DOMAIN created : \A j \in DOMAIN created :
       i # j => created[i].invite_code # created[j].invite_code
  /\ \A i \in DOMAIN created : \A g \in Groups : created[i].invite_code # InviteCode[g]

\* two groups have been created, one of them with a code of 6 characters,
\* and an insert of a group has been turned down
C25_Witness ==
  /\ Len(created) = 2
  /\ \E i \in DOMAIN created : Len(created[i].invite_code) = InviteCodeLength
  /\ \E c \in Creators : modal[c].error = "Failed to create group"

\* C28: when a creation has completed as successful (onCreated has been
\* called), the membership of the creator in the new group is stored
C28_CreatorIsMember ==
  \A c \in Creators :
    modal[c].pc = "created"
      => \E m \in group_members :
           m.group_id = modal[c].groupId /\ m.user_id = CreatorUser[c]

\* the one category of a BMI: the lower bound of a category belongs to it
Category(x) ==
  CASE x < 185 -> "Underweight"
    [] 185 <= x /\ x < 250 -> "Normal"
    [] 250 <= x /\ x < 300 -> "Overweight"
    [] 300 <= x /\ x < 350 -> "Obese"
    [] 350 <= x -> "Severely Obese"

\* a label names a category; the widget writes "Normal Weight" for "Normal"
Names(label, category) ==
  label = category \/ (label = "Normal Weight" /\ category = "Normal")

\* C26: every BMI categoriser gives a BMI its one category out of
\* Underweight (< 18.5), Normal (< 25), Overweight (< 30), Obese (< 35) and
\* Severely Obese
C26_BMICategories ==
  /\ bmi.widget # "none" => Names(bmi.widget, Category(bmi.value))
  /\ bmi.form # "none" => Names(bmi.form, Category(bmi.value))

\* C29: once the selected group has changed and all fetches of the component
\* have completed, the member progress the component holds is that of the
\* group selected last: it lists the members of that group
C29_StateOfSelectedGroup ==
  \A v \in Viewers : \A w \in Viewers :
    (/\ v # w
     /\ view[v].instance = w
     /\ view[v].pc = "done"
     /\ view[w].pc = "done")
      => {view[w].membersProgress[i].user_id : i \in 1..Len(view[w].membersProgress)}
           = MemberIds(FetchedGroup[v])
====
